---- MODULE Spec2Model ----
(***************************************************************************)
(* Touch calibration sketch (src/src/touch_calibration.cpp).               *)
(*                                                                         *)
(* setup() collects 20 averaged touches for the top-left corner, then 20   *)
(* for the bottom-right corner, and stores their averages in av_X_TL,      *)
(* av_Y_TL, av_X_BR, av_Y_BR.  loop() maps every firm touch to a pixel     *)
(* with these four values and draws a marker there.                        *)
(*                                                                         *)
(* The touch controller is the environment: every poll of touched() and    *)
(* every burst of getPoint() readings is a nondeterministic input.         *)
(***************************************************************************)
EXTENDS Integers, Sequences, FiniteSets

VARIABLES
    pc,                  \* position of the single thread of control
    x, y, z,             \* int16_t x, y, z  (line 78)
    av_X_TL, av_Y_TL,    \* int32_t corner averages (lines 81-84)
    av_X_BR, av_Y_BR,
    valuesX, valuesY,    \* int valuesX[SAMPLES], valuesY[SAMPLES] (line 178)
    collectedSamples,    \* uint8_t collectedSamples (line 179)
    isSamplesCollected,  \* bool isSamplesCollected (line 176)
    contact,             \* environment: phase in which the finger now on the
                         \* panel touched down, "none" when it is lifted; the
                         \* last touched() poll returned (contact # "none")
    raw,                 \* history: result of the last getTouchParameters call
    marker,              \* history: <<x, y>> given to fillCircle by the last
                         \* loop() iteration, <<>> when it drew nothing
    accTL, accBR,        \* history: the <<x, y>> of every touch with z > 150
                         \* observed while touched during each corner phase
    steps,               \* history: protocol steps executed, repeats collapsed
    nrPoint, burst       \* sampler harness: arguments of the last direct call

vars == << pc, x, y, z, av_X_TL, av_Y_TL, av_X_BR, av_Y_BR, valuesX, valuesY,
           collectedSamples, isSamplesCollected, contact, raw, marker,
           accTL, accBR, steps, nrPoint, burst >>

-----------------------------------------------------------------------------
(* Program constants *)

SCREEN_WIDTH == 240
SCREEN_HEIGHT == 320
THRESHOLD_Z == 500
THRESHOLD_Z_CALIBRATION == 150
SAMPLES == 20
NR_POINT == 4

(* Bounds of the model *)

\* The finger is put down anywhere; among the first MaxWander accepted touches
\* of a corner phase it may shift to a neighbouring reading from one touch to
\* the next; after them the operator holds it where it is.
MaxWander == 2
\* Largest nrPoint the sampler harness passes to getTouchParameters.
MaxNrPoint == 4

-----------------------------------------------------------------------------
(* Integer arithmetic of the target *)

\* Conversion to int16_t: the value modulo 2^16, in -32768..32767.
ToInt16(v) ==
    LET m == v % 65536 IN IF m >= 32768 THEN m - 65536 ELSE m

Abs(v) == IF v < 0 THEN -v ELSE v

\* C++ integer division: the quotient truncated toward zero (b # 0).
TruncDiv(a, b) ==
    IF (a < 0) = (b < 0) THEN Abs(a) \div Abs(b) ELSE -(Abs(a) \div Abs(b))

-----------------------------------------------------------------------------
(* The touch controller's readings *)

Pt(px, py, pz) == [x |-> px, y |-> py, z |-> pz]

\* Touches the operator makes while calibrating: the two corners, a point
\* next to the top-left corner, the middle of the screen, a touch that is too
\* light and one exactly at the calibration threshold.
CornerTouches ==
    { Pt(100, 100, 300), Pt(3900, 3900, 300), Pt(101, 99, 300),
      Pt(2000, 2000, 600), Pt(100, 100, 100), Pt(3900, 3900, 150) }

\* Test touches of the demo loop: the touches above and mid-screen and corner
\* touches that are firm or exactly at the runtime threshold.
DemoTouches ==
    CornerTouches \cup
    { Pt(2000, 2000, 500), Pt(100, 100, 600), Pt(3900, 3900, 600),
      Pt(3900, 100, 501) }

\* A stale reading left in the controller from before the touch.
StalePt == Pt(0, 0, 0)

\* The nrPoint + 1 readings one getTouchParameters call polls while the finger
\* rests at p: the first is p or the stale reading, the last is p or p moved by
\* (+1, +3) with the pressure gone.
BurstsAt(p) ==
    { [i \in 1..(NR_POINT + 1) |->
          IF i = 1 THEN first
          ELSE IF i = NR_POINT + 1 /\ jitter
               THEN Pt(p.x + 1, p.y + 3, 0)
               ELSE p]
      : first \in {p, StalePt}, jitter \in BOOLEAN }

\* Readings the sampler harness draws from: all of int16_t's sign cases and a
\* value whose sums leave the int16_t range.
SamplerPts ==
    { Pt(1, 1, 300), Pt(2, 5, 100), Pt(-3, -7, 0), Pt(16384, 4095, 4095) }

-----------------------------------------------------------------------------
(* getTouchParameters, lines 120-150 *)

RECURSIVE SumX(_, _, _)
\* tempX += avX[i] over the polls from..to of pts
SumX(pts, from, to) ==
    IF from > to THEN 0 ELSE pts[from].x + SumX(pts, from + 1, to)

RECURSIVE SumY(_, _, _)
SumY(pts, from, to) ==
    IF from > to THEN 0 ELSE pts[from].y + SumY(pts, from + 1, to)

\* pts[1] is the poll thrown away at line 126; pts[2..nr+1] are the polls of
\* the loop at lines 128-136.  Lines 147-148 convert the int32_t sum to
\* int16_t first and divide afterwards: (int16_t) tempX / nrPoint.
GetTouchParameters(nr, pts) ==
    LET tempX == SumX(pts, 2, nr + 1)
        tempY == SumY(pts, 2, nr + 1)
        tempZ == pts[2].z
    IN  [ x |-> ToInt16(TruncDiv(ToInt16(tempX), nr)),
          y |-> ToInt16(TruncDiv(ToInt16(tempY), nr)),
          z |-> ToInt16(tempZ) ]

\* lines 184 and 234: what getTouchParameters(4, &x, &y, &z) can return during
\* calibration, over every burst of readings at every corner touch
CornerResults ==
    { GetTouchParameters(NR_POINT, b) :
          b \in UNION { BurstsAt(p) : p \in CornerTouches } }

\* line 275: what getTouchParameters(4, &x, &y, &z) can return in the demo loop
DemoResults ==
    { GetTouchParameters(NR_POINT, b) :
          b \in UNION { BurstsAt(p) : p \in DemoTouches } }

-----------------------------------------------------------------------------
(* map(), called at lines 279-280 *)

\* The affine rescale, defined for in_max # in_min.
map(v, in_min, in_max, out_min, out_max) ==
    TruncDiv((v - in_min) * (out_max - out_min), in_max - in_min) + out_min

\* What a call can return: with in_max = in_min the formula divides by zero
\* and the value is whatever the core library yields (-1 or 0).
MapResults(v, in_min, in_max, out_min, out_max) ==
    IF in_max = in_min THEN {-1, 0}
    ELSE { map(v, in_min, in_max, out_min, out_max) }

\* Faulty variant of PixelXResults: the output range starts at 0, not 1.
PixelXResults_FromZero(rawX) ==
    MapResults(rawX, av_X_TL, av_X_BR, 0, SCREEN_WIDTH)

\* line 279: map(x, av_X_TL, av_X_BR, 1, SCREEN_WIDTH)
PixelXResults(rawX) == MapResults(rawX, av_X_TL, av_X_BR, 1, SCREEN_WIDTH)

\* line 280: map(y, av_Y_TL, av_Y_BR, 1, SCREEN_HEIGHT)
PixelYResults(rawY) == MapResults(rawY, av_Y_TL, av_Y_BR, 1, SCREEN_HEIGHT)

-----------------------------------------------------------------------------
(* setup(), lines 152-268 *)

Slots == 0..(SAMPLES - 1)

\* Contents of the uninitialised stack arrays declared at line 178.
StackGarbage == {0, 21845}

RECURSIVE SumSlots(_, _)
\* values[0] + ... + values[n-1]
SumSlots(values, n) ==
    IF n = 0 THEN 0 ELSE values[n - 1] + SumSlots(values, n - 1)

\* the loops at lines 204-207 and 254-257
SumValues(values) == SumSlots(values, SAMPLES)

\* Faulty variant of Accept: a touch exactly at the threshold is collected.
Accept_AtThreshold(touchZ) == touchZ >= THRESHOLD_Z_CALIBRATION

\* line 186 / 236: collect data only if there is a real touch
Accept(touchZ) == touchZ > THRESHOLD_Z_CALIBRATION

\* Faulty variant of QuotaReached: the loop ends one sample early.
QuotaReached_Early(n) == n = SAMPLES - 1

\* line 191 / 241: collectedSamples == SAMPLES
QuotaReached(n) == n = SAMPLES

\* History of the touches a corner phase observed with z > 150.
Observe(acc, t) ==
    IF t.z > 150 THEN Append(acc, << t.x, t.y >>) ELSE acc

Step(name) ==
    IF steps # <<>> /\ steps[Len(steps)] = name THEN steps
    ELSE Append(steps, name)

Init ==
    /\ pc = "setup"
    /\ x = 0 /\ y = 0 /\ z = 0
    /\ av_X_TL = 0 /\ av_Y_TL = 0 /\ av_X_BR = 0 /\ av_Y_BR = 0
    /\ valuesX = [i \in Slots |-> 0]
    /\ valuesY = [i \in Slots |-> 0]
    /\ collectedSamples = 0
    /\ isSamplesCollected = FALSE
    /\ contact = "none"
    /\ raw = Pt(0, 0, 0)
    /\ marker = <<>>
    /\ accTL = <<>> /\ accBR = <<>>
    /\ steps = <<>>
    /\ nrPoint = 0 /\ burst = <<>>

\* lines 153-180: initialisation, top-left prompt, declaration of the locals
PromptTopLeft ==
    /\ pc = "setup"
    /\ \E g \in StackGarbage :
          /\ valuesX' = [i \in Slots |-> g]
          /\ valuesY' = [i \in Slots |-> g]
    /\ isSamplesCollected' = FALSE
    /\ collectedSamples' = 0
    /\ steps' = Step("prompt_TL")
    /\ pc' = "collect_TL"
    /\ UNCHANGED << x, y, z, av_X_TL, av_Y_TL, av_X_BR, av_Y_BR, contact, raw,
                    marker, accTL, accBR, nrPoint, burst >>

\* What the finger does between two polls of touched(): it stays down, lifts,
\* or touches down anew in the present phase.
ContactNow(phase) ==
    {"none", phase} \cup (IF contact = "none" THEN {} ELSE {contact})

\* The operator's hand: the first accepted touch of a phase is anywhere, each
\* of the next MaxWander - 1 is at most one unit away from the one before it,
\* every later one is where the one before it was.
Wanders(t) ==
    IF collectedSamples = 0 THEN TRUE
    ELSE LET dx == Abs(t.x - valuesX[collectedSamples - 1])
             dy == Abs(t.y - valuesY[collectedSamples - 1])
         IN  IF collectedSamples < MaxWander
             THEN dx <= 1 /\ dy <= 1
             ELSE dx = 0 /\ dy = 0

\* One iteration of a collection loop, lines 181-196 and 231-246.
CollectIteration(phase, acc) ==
    /\ ~isSamplesCollected
    /\ \E c \in ContactNow(phase) :
        /\ contact' = c
        /\ IF c = "none"
           THEN UNCHANGED << x, y, z, raw, valuesX, valuesY, collectedSamples,
                             isSamplesCollected >>
                /\ acc' = acc
           ELSE \E t \in CornerResults :
                /\ x' = t.x /\ y' = t.y /\ z' = t.z
                /\ raw' = t
                /\ acc' = Observe(acc, t)
                /\ IF Accept(t.z)
                   THEN /\ Wanders(t)
                        /\ valuesX' = [valuesX EXCEPT ![collectedSamples] = t.x]
                        /\ valuesY' = [valuesY EXCEPT ![collectedSamples] = t.y]
                        /\ collectedSamples' = collectedSamples + 1
                        /\ isSamplesCollected' =
                              QuotaReached(collectedSamples + 1)
                   ELSE UNCHANGED << valuesX, valuesY, collectedSamples,
                                     isSamplesCollected >>

\* lines 181-196
CollectTopLeft ==
    /\ pc = "collect_TL"
    /\ CollectIteration("TL", accTL)
    /\ steps' = Step("collect_TL")
    /\ UNCHANGED << pc, av_X_TL, av_Y_TL, av_X_BR, av_Y_BR, marker, accBR,
                    nrPoint, burst >>

\* lines 198-211: "STOP TOUCHING", the top-left averages, the settle delay
StopTouchingTopLeft ==
    /\ pc = "collect_TL"
    /\ isSamplesCollected
    /\ av_X_TL' = TruncDiv(av_X_TL + SumValues(valuesX), SAMPLES)
    /\ av_Y_TL' = TruncDiv(av_Y_TL + SumValues(valuesY), SAMPLES)
    /\ steps' = Step("stop_TL")
    /\ pc' = "prompt_BR"
    /\ UNCHANGED << x, y, z, av_X_BR, av_Y_BR, valuesX, valuesY,
                    collectedSamples, isSamplesCollected, contact, raw, marker,
                    accTL, accBR, nrPoint, burst >>

\* Faulty variant of PromptBottomRight: isSamplesCollected is not reset.
PromptBottomRight_NoReset ==
    /\ pc = "prompt_BR"
    /\ valuesX' = [i \in Slots |-> 0]
    /\ valuesY' = [i \in Slots |-> 0]
    /\ collectedSamples' = 0
    /\ steps' = Step("prompt_BR")
    /\ pc' = "collect_BR"
    /\ UNCHANGED << x, y, z, av_X_TL, av_Y_TL, av_X_BR, av_Y_BR, contact, raw,
                    marker, accTL, accBR, nrPoint, burst, isSamplesCollected >>

\* lines 213-230: bottom-right prompt, clean arrays, reset of the loop state
PromptBottomRight ==
    /\ pc = "prompt_BR"
    /\ valuesX' = [i \in Slots |-> 0]
    /\ valuesY' = [i \in Slots |-> 0]
    /\ collectedSamples' = 0
    /\ isSamplesCollected' = FALSE
    /\ steps' = Step("prompt_BR")
    /\ pc' = "collect_BR"
    /\ UNCHANGED << x, y, z, av_X_TL, av_Y_TL, av_X_BR, av_Y_BR, contact, raw,
                    marker, accTL, accBR, nrPoint, burst >>

\* lines 231-246
CollectBottomRight ==
    /\ pc = "collect_BR"
    /\ CollectIteration("BR", accBR)
    /\ steps' = Step("collect_BR")
    /\ UNCHANGED << pc, av_X_TL, av_Y_TL, av_X_BR, av_Y_BR, marker, accTL,
                    nrPoint, burst >>

\* Faulty variant of StopTouchingBottomRight: the bottom-right sums are added
\* to the top-left averages instead of to av_X_BR and av_Y_BR.
StopTouchingBottomRight_OnTopLeft ==
    /\ pc = "collect_BR"
    /\ isSamplesCollected
    /\ av_X_BR' = TruncDiv(av_X_TL + SumValues(valuesX), SAMPLES)
    /\ av_Y_BR' = TruncDiv(av_Y_TL + SumValues(valuesY), SAMPLES)
    /\ steps' = Step("stop_BR")
    /\ pc' = "report"
    /\ UNCHANGED << x, y, z, av_X_TL, av_Y_TL, valuesX, valuesY,
                    collectedSamples, isSamplesCollected, contact, raw, marker,
                    accTL, accBR, nrPoint, burst >>

\* lines 248-261: "STOP TOUCHING", the bottom-right averages, the settle delay
StopTouchingBottomRight ==
    /\ pc = "collect_BR"
    /\ isSamplesCollected
    /\ av_X_BR' = TruncDiv(av_X_BR + SumValues(valuesX), SAMPLES)
    /\ av_Y_BR' = TruncDiv(av_Y_BR + SumValues(valuesY), SAMPLES)
    /\ steps' = Step("stop_BR")
    /\ pc' = "report"
    /\ UNCHANGED << x, y, z, av_X_TL, av_Y_TL, valuesX, valuesY,
                    collectedSamples, isSamplesCollected, contact, raw, marker,
                    accTL, accBR, nrPoint, burst >>

\* lines 263-268: "Calibration done", printCalibrationData, "Test Touch"
ReportCalibration ==
    /\ pc = "report"
    /\ steps' = Step("report")
    /\ pc' = "loop"
    /\ UNCHANGED << x, y, z, av_X_TL, av_Y_TL, av_X_BR, av_Y_BR, valuesX,
                    valuesY, collectedSamples, isSamplesCollected, contact,
                    raw, marker, accTL, accBR, nrPoint, burst >>

-----------------------------------------------------------------------------
(* loop(), lines 270-289 *)

\* line 276
Firm(touchZ) == touchZ > THRESHOLD_Z

\* Faulty variant of LoopKeeps: a firm touch is stored as a new top-left
\* reference.
LoopKeeps_Recalibrates ==
    /\ av_X_TL' = IF marker' # <<>> THEN raw'.x ELSE av_X_TL
    /\ UNCHANGED << pc, av_Y_TL, av_X_BR, av_Y_BR, valuesX, valuesY,
                    collectedSamples, isSamplesCollected, accTL, accBR,
                    nrPoint, burst >>

\* loop() assigns x, y and z only
LoopKeeps ==
    UNCHANGED << pc, av_X_TL, av_Y_TL, av_X_BR, av_Y_BR, valuesX, valuesY,
                 collectedSamples, isSamplesCollected, accTL, accBR,
                 nrPoint, burst >>

LoopIteration ==
    /\ pc = "loop"
    /\ steps' = Step("loop")
    /\ \E c \in ContactNow("demo") :
        /\ contact' = c
        /\ IF c = "none"
           THEN /\ marker' = <<>>
                /\ UNCHANGED << x, y, z, raw >>
           ELSE \E t \in DemoResults :
                /\ raw' = t
                /\ z' = t.z
                /\ IF Firm(t.z)
                   THEN \E mx \in PixelXResults(t.x) :
                        \E my \in PixelYResults(t.y) :
                           /\ x' = ToInt16(mx)
                           /\ y' = ToInt16(my)
                           /\ marker' = << ToInt16(mx), ToInt16(my) >>
                   ELSE /\ x' = t.x /\ y' = t.y
                        /\ marker' = <<>>
    /\ LoopKeeps

Next ==
    \/ PromptTopLeft
    \/ CollectTopLeft
    \/ StopTouchingTopLeft
    \/ PromptBottomRight
    \/ CollectBottomRight
    \/ StopTouchingBottomRight
    \/ ReportCalibration
    \/ LoopIteration

Spec == Init /\ [][Next]_vars

\* A corner touch the collection loop accepts.
AcceptedTopLeft == CollectTopLeft /\ collectedSamples' = collectedSamples + 1
AcceptedBottomRight ==
    CollectBottomRight /\ collectedSamples' = collectedSamples + 1

\* The program always runs (setup() and loop() never block outside the polls),
\* and the operator, as long as a corner is asked for, presses it firmly again
\* and again.
LiveSpec ==
    /\ Init /\ [][Next]_vars
    /\ WF_vars(Next)
    /\ SF_vars(AcceptedTopLeft)
    /\ SF_vars(AcceptedBottomRight)

-----------------------------------------------------------------------------
(* Harness for getTouchParameters alone: one call on readings of any sign   *)
(* and size, for every nrPoint in 1..MaxNrPoint.                            *)

SamplerInit ==
    /\ pc = "sampler_call"
    /\ x = 0 /\ y = 0 /\ z = 0
    /\ av_X_TL = 0 /\ av_Y_TL = 0 /\ av_X_BR = 0 /\ av_Y_BR = 0
    /\ valuesX = [i \in Slots |-> 0]
    /\ valuesY = [i \in Slots |-> 0]
    /\ collectedSamples = 0
    /\ isSamplesCollected = FALSE
    /\ contact = "none"
    /\ raw = Pt(0, 0, 0)
    /\ marker = <<>>
    /\ accTL = <<>> /\ accBR = <<>>
    /\ steps = <<>>
    /\ \E nr \in 1..MaxNrPoint :
          /\ nrPoint = nr
          /\ burst \in [1..(nr + 1) -> SamplerPts]

\* getTouchParameters(nrPoint, &x, &y, &z)
SamplerCall ==
    /\ pc = "sampler_call"
    /\ \E t \in { GetTouchParameters(nrPoint, burst) } :
          /\ x' = t.x /\ y' = t.y /\ z' = t.z
          /\ raw' = t
    /\ pc' = "sampler_done"
    /\ UNCHANGED << av_X_TL, av_Y_TL, av_X_BR, av_Y_BR, valuesX, valuesY,
                    collectedSamples, isSamplesCollected, contact, marker,
                    accTL, accBR, steps, nrPoint, burst >>

SamplerNext == SamplerCall

SamplerSpec == SamplerInit /\ [][SamplerNext]_vars

-----------------------------------------------------------------------------
(* Properties *)

RECURSIVE SumCol(_, _)
\* the sum of the k-th components of the pairs of seq
SumCol(seq, k) ==
    IF seq = <<>> THEN 0 ELSE seq[1][k] + SumCol(Tail(seq), k)

\* The first n slots of the arrays hold the touches of acc, in order.
HoldsInOrder(acc, n) ==
    \A i \in 0..(n - 1) :
        valuesX[i] = acc[i + 1][1] /\ valuesY[i] = acc[i + 1][2]

AfterTopLeft == {"prompt_BR", "collect_BR", "report", "loop"}
AfterBottomRight == {"report", "loop"}

ProtocolOrder ==
    << "prompt_TL", "collect_TL", "stop_TL", "prompt_BR", "collect_BR",
       "stop_BR", "report", "loop" >>

IsPrefix(s, t) == Len(s) <= Len(t) /\ \A i \in 1..Len(s) : s[i] = t[i]

Held(p, n) == [i \in 1..n |-> p]

\* C1: in both collection loops the samples collected are exactly the touches
\* seen with z > 150, in order: a touch with z <= 150 adds nothing to
\* collectedSamples, valuesX or valuesY; the loop is over exactly when 20 such
\* touches were seen; and the corner reference is the quotient by 20 of their
\* sums alone.
C1_OnlyFirmTouchesCollected ==
    /\ pc = "collect_TL" =>
          /\ collectedSamples = Len(accTL)
          /\ HoldsInOrder(accTL, collectedSamples)
          /\ \A i \in Slots : i >= collectedSamples =>
                valuesX[i] \in StackGarbage /\ valuesY[i] \in StackGarbage
          /\ isSamplesCollected <=> (Len(accTL) = 20)
    /\ pc = "collect_BR" =>
          /\ collectedSamples = Len(accBR)
          /\ HoldsInOrder(accBR, collectedSamples)
          /\ \A i \in Slots : i >= collectedSamples =>
                valuesX[i] = 0 /\ valuesY[i] = 0
          /\ isSamplesCollected <=> (Len(accBR) = 20)
    /\ pc \in AfterTopLeft =>
          /\ Len(accTL) = 20
          /\ av_X_TL = TruncDiv(SumCol(accTL, 1), 20)
          /\ av_Y_TL = TruncDiv(SumCol(accTL, 2), 20)
    /\ pc \in AfterBottomRight =>
          /\ Len(accBR) = 20
          /\ av_X_BR = TruncDiv(SumCol(accBR, 1), 20)
          /\ av_Y_BR = TruncDiv(SumCol(accBR, 2), 20)

\* The bottom-right loop, with 19 touches collected at more than one place,
\* has just seen a touch exactly at the threshold and collected nothing.
C1_Witness ==
    /\ pc = "collect_BR" /\ ~isSamplesCollected
    /\ collectedSamples = 19 /\ Len(accBR) = 19
    /\ accBR[1] # accBR[19]
    /\ contact # "none" /\ z = 150

\* C2: one getTouchParameters call returns x = Sx / nrPoint and
\* y = Sy / nrPoint, truncated, for the exact sums Sx and Sy of the nrPoint
\* readings after the discarded one, and z = the first of these readings' z.
C2_ExactTruncatedAverage ==
    pc = "sampler_done" =>
        /\ x = TruncDiv(SumX(burst, 2, nrPoint + 1), nrPoint)
        /\ y = TruncDiv(SumY(burst, 2, nrPoint + 1), nrPoint)
        /\ z = burst[2].z

\* C3 as stated: with the references 100 and 3900 a marker for raw x = 100 is
\* drawn at x = 1, for raw x = 3900 at x = 240 and for raw x = 2000 at x = 117.
C3_AsStated ==
    (pc = "loop" /\ marker # <<>> /\ av_X_TL = 100 /\ av_X_BR = 3900) =>
        /\ raw.x = 100 => marker[1] = 1
        /\ raw.x = 3900 => marker[1] = 240
        /\ raw.x = 2000 => marker[1] = 117

\* C3, amended: with the references 100 and 3900 a marker for raw x = 100 is
\* drawn at x = 1, for raw x = 3900 at x = 240 and for raw x = 2000 at
\* x = 120 (1900 * 239 / 3800 = 119, plus 1).
C3_MapValues ==
    (pc = "loop" /\ marker # <<>> /\ av_X_TL = 100 /\ av_X_BR = 3900) =>
        /\ raw.x = 100 => marker[1] = 1
        /\ raw.x = 3900 => marker[1] = 240
        /\ raw.x = 2000 => marker[1] = 120

\* A marker was drawn for raw x = 2000 under the references 100 and 3900.
C3_Witness ==
    /\ pc = "loop" /\ marker # <<>>
    /\ av_X_TL = 100 /\ av_X_BR = 3900
    /\ raw.x = 2000

\* C4: when setup() has finished, each of the four averages is the quotient by
\* 20, truncated, of the sum of the 20 touches accepted in its own corner
\* phase; 20 touches at (100,100) and then 20 at (3900,3900) give the
\* references (100,100) and (3900,3900), which map 100 to 1 and 3900 to 240
\* and 320.
C4_ReferencesFromOwnPhase ==
    pc \in AfterBottomRight =>
        /\ av_X_TL = TruncDiv(SumCol(accTL, 1), 20)
        /\ av_Y_TL = TruncDiv(SumCol(accTL, 2), 20)
        /\ av_X_BR = TruncDiv(SumCol(accBR, 1), 20)
        /\ av_Y_BR = TruncDiv(SumCol(accBR, 2), 20)
        /\ (accTL = Held(<<100, 100>>, 20) /\ accBR = Held(<<3900, 3900>>, 20))
              => /\ << av_X_TL, av_Y_TL, av_X_BR, av_Y_BR >>
                       = << 100, 100, 3900, 3900 >>
                 /\ PixelXResults(100) = {1} /\ PixelXResults(3900) = {240}
                 /\ PixelYResults(100) = {1} /\ PixelYResults(3900) = {320}

\* setup() has finished after a top-left phase whose touches were not all at
\* one point and whose sum 20 does not divide, and a bottom-right phase at
\* another place.
C4_Witness ==
    /\ pc = "loop"
    /\ accTL[1] # accTL[20]
    /\ SumCol(accTL, 1) % 20 # 0
    /\ accBR = Held(<<3900, 3900>>, 20)

\* C5: after every iteration of loop() a marker was drawn if and only if the
\* panel was touched and the averaged touch has z > 500, and the marker is at
\* (map(rawX, av_X_TL, av_X_BR, 1, 240), map(rawY, av_Y_TL, av_Y_BR, 1, 320)).
C5_MarkerAtMappedTouch ==
    (pc = "loop" /\ steps = ProtocolOrder) =>
        /\ (marker # <<>>) <=> (contact # "none" /\ raw.z > 500)
        /\ marker # <<>> =>
              /\ marker[1] \in MapResults(raw.x, av_X_TL, av_X_BR, 1, 240)
              /\ marker[2] \in MapResults(raw.y, av_Y_TL, av_Y_BR, 1, 320)

\* C6: the steps run in the order prompt, collection, stop message for the
\* top-left corner, the same for the bottom-right corner, report, demo loop;
\* none is skipped, repeated or out of order, and loop() runs only after all
\* seven.
C6_ProtocolOrder ==
    /\ IsPrefix(steps, ProtocolOrder)
    /\ pc = "loop" => Len(steps) >= 7
    /\ (steps # <<>> /\ steps[Len(steps)] = "loop") => pc = "loop"

\* loop() is iterating after the whole procedure.
C6_Witness == pc = "loop" /\ steps = ProtocolOrder

\* C7: a collection loop goes on as long as no further touch with z > 150 is
\* seen, ends only when 20 were seen, and, with an operator who keeps
\* pressing the corner firmly, does end, for both corners.
C7_EndsExactlyAfterTwenty ==
    /\ [][ (pc = "collect_TL" /\ ~isSamplesCollected /\ accTL' = accTL)
              => (pc' = "collect_TL" /\ ~isSamplesCollected') ]_vars
    /\ [][ (pc = "collect_BR" /\ ~isSamplesCollected /\ accBR' = accBR)
              => (pc' = "collect_BR" /\ ~isSamplesCollected') ]_vars
    /\ [][ (pc = "collect_TL" /\ pc' # "collect_TL") => Len(accTL) = 20 ]_vars
    /\ [][ (pc = "collect_BR" /\ pc' # "collect_BR") => Len(accBR) = 20 ]_vars
    /\ (pc \in {"collect_TL", "collect_BR"}) ~> (pc \in {"prompt_BR", "report"})

\* The top-left loop is still running after a touch that was too light.
C7_Witness ==
    /\ pc = "collect_TL" /\ ~isSamplesCollected
    /\ collectedSamples = 19
    /\ contact # "none" /\ z <= 150

\* C8: no sample is accepted for the bottom-right corner from a contact that
\* began during the top-left phase.
C8_NoBleedOver ==
    ~ ( /\ pc = "collect_BR"
        /\ collectedSamples > 0
        /\ contact = "TL"
        /\ z > 150 )

\* C9: from the end of the bottom-right averaging on no step changes av_X_TL,
\* av_Y_TL, av_X_BR or av_Y_BR.
C9_ReferencesFrozen ==
    [][ (pc \in AfterBottomRight) =>
           UNCHANGED << av_X_TL, av_Y_TL, av_X_BR, av_Y_BR >> ]_vars

\* loop() has drawn a marker under references that are not the initial zeros.
C9_Witness ==
    /\ pc = "loop" /\ marker # <<>>
    /\ av_X_TL # 0 /\ av_X_BR # av_X_TL

\* C10: whenever loop() has applied the mapping, both divisors are non-zero.
C10_DivisorsNonZero ==
    (pc = "loop" /\ marker # <<>>) =>
        av_X_BR # av_X_TL /\ av_Y_BR # av_Y_TL

====
